---- MODULE Spec2Model ----
(***************************************************************************)
(* Model of the subscription watcher of go-office365                       *)
(* (SubscriptionWatcher: generator, per-tick listing tasks, fetcher pool,  *)
(* state store, output channel).  Time is counted in seconds.              *)
(***************************************************************************)
EXTENDS Integers, Sequences, FiniteSets, TLC

(* ------------------------------------------------------------------ *)
(* Program constants                                                   *)
(* ------------------------------------------------------------------ *)

\* time.Second, time.Minute, time.Hour expressed in seconds
Second == 1
Minute == 60
Hour == 3600

\* intervalOneDay: 24 hours
intervalOneDay == 24 * Hour

\* var contentTypes = map[string]ContentType{...}
contentTypes ==
    ("Audit.AzureActiveDirectory" :> 0) @@ ("Audit.Exchange" :> 1) @@
    ("Audit.SharePoint" :> 2) @@ ("Audit.General" :> 3) @@ ("DLP.All" :> 4)

\* the ContentType enum
ContentType == 0 .. 4

\* contentTypeCount: the number of content types; sizes the bus and the pool
contentTypeCount == Cardinality(ContentType)

\* time.Time{}: the zero instant, before every instant the model uses
ZeroTime == 0

(* ------------------------------------------------------------------ *)
(* Bounds and inputs                                                   *)
(* ------------------------------------------------------------------ *)

\* number of ticks the generator receives in a run
MaxTicks == 2

\* instant of the ticker's creation
StartTime == 2 * intervalOneDay

\* configurations accepted by NewSubscriptionWatcher that the runs use
Configs == { [LookBehindMinutes |-> 60, TickerIntervalSeconds |-> 30] }

\* ContentCreated strings: a well-formed one stands for an instant
Created(sec) == [layoutOK |-> TRUE, instant |-> sec]
Garbage == [layoutOK |-> FALSE, instant |-> ZeroTime]

D1 == [ContentID |-> "C1", ContentCreated |-> Created(StartTime - 20)]
D2 == [ContentID |-> "C2", ContentCreated |-> Created(StartTime - 10)]
DBad == [ContentID |-> "C3", ContentCreated |-> Garbage]

\* The upstream of a run: what Subscriptions.List and Content.List can return
\* on success, and the ticks the generator can miss.  A ticker drops ticks
\* for a slow receiver, so the instant the generator receives is a whole
\* number (a member of tickSkips) of intervals after the previous one.
\* One environment varies the content, one the instants, one the
\* subscriptions.
EnvContent ==
    [subscriptionLists |-> { << "Audit.Exchange" >> },
     contentLists |-> { << >>, << D2 >>, << D1, D2 >>, << DBad, D2 >> },
     tickSkips |-> { 1 }]
EnvInstants ==
    [subscriptionLists |-> { << "Audit.Exchange" >> },
     contentLists |-> { << >>, << D2 >> },
     tickSkips |-> { 1, 10, 2881 }]
EnvSubscriptions ==
    [subscriptionLists |-> { << "Audit.Bogus", "Audit.Exchange" >> },
     contentLists |-> { << >>, << D2 >> },
     tickSkips |-> { 1 }]
Envs == { EnvContent, EnvInstants, EnvSubscriptions }

\* an upstream with three subscriptions, to fill the bus: two ticks offer
\* six Resources
EnvBus ==
    [subscriptionLists |->
         { << "Audit.Exchange", "Audit.SharePoint", "Audit.General" >> },
     contentLists |-> { << >> },
     tickSkips |-> { 1 }]

\* an upstream whose listings have an unrecognized subscription behind a
\* recognized one, and two unrecognized ones
EnvListing ==
    [subscriptionLists |->
         { << "Audit.Exchange", "Audit.Bogus" >>, << "Audit.Bogus", "Audit.Bogus" >> },
     contentLists |-> { << >> },
     tickSkips |-> { 1 }]

\* what Audit.List returns on success for a content blob
AuditRecord(id, n) == [ContentID |-> id, Seq |-> n]
AuditLists(id) ==
    IF id = "C1" THEN { << AuditRecord(id, 1), AuditRecord(id, 2) >> }
                 ELSE { << AuditRecord(id, 1) >> }

\* the outcomes of Audit.List(id): an error, or records
AuditFailure == [err |-> TRUE, records |-> << >>]
AuditOutcomes(id) ==
    { [err |-> FALSE, records |-> l] : l \in AuditLists(id) } \cup { AuditFailure }

(* ------------------------------------------------------------------ *)
(* Resource                                                            *)
(* ------------------------------------------------------------------ *)

NoRequest == [set |-> FALSE]

\* Resource{}
EmptyResource == [Request |-> NoRequest, Response |-> << >>, Errors |-> << >>]

AddError(r, e) == [r EXCEPT !.Errors = Append(@, e)]

SetRequest(r, ct, t) ==
    [r EXCEPT !.Request = [set |-> TRUE, ContentType |-> ct, RequestTime |-> t]]

SetResponse(r, records) == [r EXCEPT !.Response = records]

(* ------------------------------------------------------------------ *)
(* Pure functions of the source                                        *)
(* ------------------------------------------------------------------ *)

GetContentType(s) ==
    IF s \in DOMAIN contentTypes
    THEN [ct |-> contentTypes[s], err |-> FALSE]
    ELSE [ct |-> -1, err |-> TRUE]

\* time.ParseInLocation(CreatedDatetimeFormat, c.ContentCreated, time.Local)
ParseInLocation(s) ==
    IF s.layoutOK THEN [t |-> s.instant, err |-> FALSE]
                  ELSE [t |-> ZeroTime, err |-> TRUE]

Before(a, b) == a < b
After(a, b) == a > b
IsZero(t) == t = ZeroTime

\* state store: maps keyed by content type
isBusyValue(m, ct) == IF ct \in DOMAIN m THEN m[ct] ELSE FALSE
isBusyStore(m, ct) == IF ct \in DOMAIN m THEN m ELSE (ct :> FALSE) @@ m
setBusy(m, ct) == (ct :> TRUE) @@ m
unsetBusy(m, ct) == (ct :> FALSE) @@ m

setLastContentCreated(m, ct, t) ==
    IF ct \notin DOMAIN m \/ Before(m[ct], t) THEN (ct :> t) @@ m ELSE m

getLastContentCreated(m, ct) == IF ct \in DOMAIN m THEN m[ct] ELSE ZeroTime

\* mutant: the write is not conditional on the stored value
setLastRequestTime_overwrite(m, ct, t) == (ct :> t) @@ m

\* mutant: only the first write is kept
setLastRequestTime_keepFirst(m, ct, t) == IF ct \notin DOMAIN m THEN (ct :> t) @@ m ELSE m

setLastRequestTime(m, ct, t) ==
    IF ct \notin DOMAIN m \/ Before(m[ct], t) THEN (ct :> t) @@ m ELSE m

getLastRequestTime(m, ct) == IF ct \in DOMAIN m THEN m[ct] ELSE ZeroTime

\* mutant: the look-behind is taken in seconds
WindowStart_lookBehindSeconds(last, requestTime, lookBehindMinutes) ==
    LET delta == last - requestTime IN
    IF IsZero(last) \/ delta < Minute
    THEN requestTime - lookBehindMinutes * Second
    ELSE IF delta > intervalOneDay
         THEN requestTime - intervalOneDay
         ELSE last

\* mutant: no case for a lastRequestTime more than a day ahead
WindowStart_noClamp(last, requestTime, lookBehindMinutes) ==
    LET delta == last - requestTime IN
    IF IsZero(last) \/ delta < Minute
    THEN requestTime - lookBehindMinutes * Minute
    ELSE last

\* mutant: a stored lastRequestTime is the start, however old
WindowStart_sinceWatermark(last, requestTime, lookBehindMinutes) ==
    IF IsZero(last) THEN requestTime - lookBehindMinutes * Minute ELSE last

\* the window start the fetcher derives (the switch of the fetcher)
WindowStart(last, requestTime, lookBehindMinutes) ==
    LET delta == last - requestTime IN
    IF IsZero(last) \/ delta < Minute
    THEN requestTime - lookBehindMinutes * Minute
    ELSE IF delta > intervalOneDay
         THEN requestTime - intervalOneDay
         ELSE last

(* ------------------------------------------------------------------ *)
(* Construction: time.Duration arithmetic of NewSubscriptionWatcher    *)
(* ------------------------------------------------------------------ *)

\* A time.Duration is an int64 count of nanoseconds; its arithmetic wraps
\* modulo 2^64.  An int64 is kept as its eight bytes in two's complement,
\* the least significant at index 0.
Int64Bytes == 0 .. 7

RECURSIVE ByteOf(_, _)
ByteOf(n, i) == IF i = 0 THEN n % 256 ELSE ByteOf(n \div 256, i - 1)

\* time.Duration(n) of an int n
Duration(n) == [i \in Int64Bytes |-> ByteOf(n, i)]

\* sum of a[j] * b[k - j] for j in 0 .. i
RECURSIVE Convolve(_, _, _, _)
Convolve(a, b, k, i) ==
    a[i] * b[k - i] + (IF i = 0 THEN 0 ELSE Convolve(a, b, k, i - 1))

RECURSIVE CarryInto(_, _, _)
CarryInto(a, b, k) ==
    IF k = 0 THEN 0
    ELSE (Convolve(a, b, k - 1, k - 1) + CarryInto(a, b, k - 1)) \div 256

\* a * b of two int64, wrapped to 64 bits
Mul64(a, b) ==
    [k \in Int64Bytes |-> (Convolve(a, b, k, k) + CarryInto(a, b, k)) % 256]

IsNegative64(a) == a[7] >= 128

RECURSIVE GreaterFrom(_, _, _)
GreaterFrom(a, b, i) ==
    IF a[i] # b[i] THEN a[i] > b[i]
    ELSE IF i = 0 THEN FALSE ELSE GreaterFrom(a, b, i - 1)

\* a > b of two int64
Greater64(a, b) ==
    IF IsNegative64(a) # IsNegative64(b) THEN IsNegative64(b)
    ELSE GreaterFrom(a, b, 7)

\* time.Second, time.Minute and time.Hour as time.Duration values
DurationSecond == Duration(1000000000)
DurationMinute == Mul64(Duration(60), DurationSecond)
DurationHour == Mul64(Duration(60), DurationMinute)

Unbuilt == [state |-> "unbuilt", err |-> ""]
Built == [state |-> "built", err |-> ""]
Failed(msg) == [state |-> "failed", err |-> msg]

\* NewSubscriptionWatcher(client, conf): the watcher, or the error
NewSubscriptionWatcher(conf) ==
    LET lookBehindDur == Mul64(Duration(conf.LookBehindMinutes), DurationMinute)
        tickerIntervalDur == Mul64(Duration(conf.TickerIntervalSeconds), DurationSecond)
    IN  IF ~Greater64(lookBehindDur, Duration(0))
        THEN Failed("lookBehindMinutes must be greater than 0")
        ELSE IF Greater64(lookBehindDur, Mul64(Duration(24), DurationHour))
        THEN Failed("lookBehindMinutes must be less than or equal to 24 hours")
        ELSE IF ~Greater64(tickerIntervalDur, Duration(0))
        THEN Failed("tickerIntervalSeconds must be greater than 0")
        ELSE IF Greater64(tickerIntervalDur, DurationHour)
        THEN Failed("tickerIntervalSeconds must be less than or equal to 1 hour")
        ELSE Built

\* configurations handed to NewSubscriptionWatcher: the ends of both ranges,
\* their neighbours, and values whose product with the unit leaves int64
LookBehindInputs == { -1, 0, 1, 60, 1440, 1441, 307445735, 2147483647 }
TickerIntervalInputs == { -1, 0, 1, 30, 3599, 3600, 3601, 86400, 2147483647 }
ConfigInputs ==
    [LookBehindMinutes : LookBehindInputs, TickerIntervalSeconds : TickerIntervalInputs]

(* ------------------------------------------------------------------ *)
(* State                                                               *)
(* ------------------------------------------------------------------ *)

VARIABLES
    env,                \* the upstream of this run
    config,             \* SubscriptionWatcher.config
    now,                \* instant of the last tick delivered by the ticker
    ticks,              \* number of ticks received so far
    ctxDone,            \* the context was cancelled
    queue,              \* s.queue: the buffered bus
    queueClosed,        \* the generator closed s.queue and returned
    outClosed,          \* the closer goroutine of Run closed out
    contentTypeBusy,    \* s.contentTypeBusy
    lastContentCreated, \* s.lastContentCreated
    lastRequestTime,    \* s.lastRequestTime
    tasks,              \* the per-tick listing goroutines, by tick number
    fetchers,           \* the fetcher goroutines
    out,                \* the Resources the consumer received on out, in order
    panicked,           \* the process died of a runtime panic
    auditCalls,         \* history: <<content type, ContentID>> given to Audit.List
    auditFailed,        \* history: <<content type, ContentID>> for which Audit.List failed
    skipped,            \* history: <<content type, ContentID>> skipped by the watermark
    overlapped,         \* history: two fetchers have held Resources of one content type at once
    watcher,            \* what NewSubscriptionWatcher returned for config
    tickInstants,       \* history: the instant of every tick received, by tick number
    busySkips           \* history: the requests << content type, tick instant >> not made for busy

vars == << env, config, now, ticks, ctxDone, queue, queueClosed, outClosed,
           contentTypeBusy, lastContentCreated, lastRequestTime, tasks,
           fetchers, out, panicked, auditCalls, auditFailed, skipped, overlapped,
           watcher, tickInstants, busySkips >>

Fetchers == 1 .. contentTypeCount

IdleFetcher ==
    [pc |-> "recv", r |-> EmptyResource, lastRequestTime |-> ZeroTime,
     lastContentCreated |-> ZeroTime, start |-> ZeroTime, end |-> ZeroTime,
     content |-> << >>, records |-> << >>,
     \* history of the fetch under way: Content.List failed, the list it
     \* returned, and what became of every descriptor examined so far
     listFailed |-> FALSE, listed |-> << >>, examined |-> << >>]

ExitedFetcher == [IdleFetcher EXCEPT !.pc = "exited"]

DoneTask == [pc |-> "done", t |-> ZeroTime, subs |-> << >>, resource |-> EmptyResource]

Init ==
    /\ env \in Envs
    /\ config \in Configs
    /\ now = StartTime
    /\ ticks = 0
    /\ ctxDone = FALSE
    /\ queue = << >>
    /\ queueClosed = FALSE
    /\ outClosed = FALSE
    /\ contentTypeBusy = << >>
    /\ lastContentCreated = << >>
    /\ lastRequestTime = << >>
    /\ tasks = << >>
    /\ fetchers = [f \in Fetchers |-> IdleFetcher]
    /\ out = << >>
    /\ panicked = "no"
    /\ auditCalls = {}
    /\ auditFailed = {}
    /\ skipped = {}
    /\ overlapped = FALSE
    /\ watcher = NewSubscriptionWatcher(config)
    /\ watcher.state = "built"
    /\ tickInstants = << >>
    /\ busySkips = {}


(* ------------------------------------------------------------------ *)
(* Generator                                                           *)
(* ------------------------------------------------------------------ *)

Running == panicked = "no"

\* mutant: the send always succeeds
sendResourceOrSkip_noDrop(q, r) == Append(q, r)

\* select { case s.queue <- r: default: }
sendResourceOrSkip(q, r) == IF Len(q) < contentTypeCount THEN Append(q, r) ELSE q

\* A runtime panic in any goroutine ends the process: no goroutine, bus or
\* state store is left; what the consumer received stays received.
Crash(reason) ==
    /\ panicked' = reason
    /\ queue' = << >>
    /\ tasks' = << >>
    /\ fetchers' = [f \in Fetchers |-> ExitedFetcher]
    /\ contentTypeBusy' = << >>
    /\ lastContentCreated' = << >>
    /\ lastRequestTime' = << >>
    /\ UNCHANGED << env, config, now, ticks, ctxDone, queueClosed, outClosed,
                    out, auditCalls, auditFailed, skipped, overlapped,
                    watcher, tickInstants, busySkips >>

\* case t := <-ticker.C: go func() {...}()
Tick(k) ==
    /\ Running
    /\ ~queueClosed
    /\ ticks < MaxTicks
    /\ k \in env.tickSkips
    /\ ticks = 0 => k = 1
    /\ now' = now + k * config.TickerIntervalSeconds * Second
    /\ ticks' = ticks + 1
    /\ tasks' = Append(tasks, [pc |-> "list", t |-> now', subs |-> << >>,
                               resource |-> EmptyResource])
    /\ tickInstants' = Append(tickInstants, now')
    /\ UNCHANGED << env, config, ctxDone, queue, queueClosed, outClosed,
                    contentTypeBusy, lastContentCreated, lastRequestTime,
                    fetchers, out, panicked, auditCalls, auditFailed, skipped, overlapped,
                    watcher, busySkips >>

\* case <-ctx.Done(): close(s.queue); return
GeneratorDone ==
    /\ Running
    /\ ctxDone
    /\ ~queueClosed
    /\ queueClosed' = TRUE
    /\ UNCHANGED << env, config, now, ticks, ctxDone, queue, outClosed,
                    contentTypeBusy, lastContentCreated, lastRequestTime,
                    tasks, fetchers, out, panicked, auditCalls, auditFailed, skipped, overlapped,
                    watcher, tickInstants, busySkips >>

\* the task's position after it is through with the head of subs
NextSub(task) ==
    IF Len(task.subs) <= 1 THEN DoneTask
    ELSE [task EXCEPT !.subs = Tail(@), !.pc = "loop"]

\* subscriptions, err := s.client.Subscription.List(ctx) fails
TaskListFails(i) ==
    /\ Running
    /\ i \in DOMAIN tasks
    /\ tasks[i].pc = "list"
    /\ IF queueClosed
       THEN Crash("send on closed queue")
       ELSE /\ queue' = sendResourceOrSkip(queue,
                            AddError(tasks[i].resource, "subscriptions_err"))
            /\ tasks' = [tasks EXCEPT ![i] = DoneTask]
            /\ UNCHANGED << env, config, now, ticks, ctxDone, queueClosed, outClosed,
                            contentTypeBusy, lastContentCreated, lastRequestTime,
                            fetchers, out, panicked, auditCalls, auditFailed, skipped, overlapped,
                            watcher, tickInstants, busySkips >>

\* subscriptions, err := s.client.Subscription.List(ctx) succeeds
TaskListSucceeds(i, subscriptions) ==
    /\ Running
    /\ i \in DOMAIN tasks
    /\ tasks[i].pc = "list"
    /\ subscriptions \in env.subscriptionLists
    /\ tasks' = [tasks EXCEPT ![i] =
                    IF subscriptions = << >> THEN DoneTask
                    ELSE [@ EXCEPT !.pc = "loop", !.subs = subscriptions]]
    /\ UNCHANGED << env, config, now, ticks, ctxDone, queue, queueClosed, outClosed,
                    contentTypeBusy, lastContentCreated, lastRequestTime,
                    fetchers, out, panicked, auditCalls, auditFailed, skipped, overlapped,
                    watcher, tickInstants, busySkips >>

\* mutant: the request carries the instant at which the listing was examined
RequestTimeOf_now(task) == now

\* the t of "case t := <-ticker.C", captured by the task's closure
RequestTimeOf(task) == task.t

\* mutant: the outcome of isBusy is not looked at
AfterBusyCheck_ignoresBusy(task, ct, busy) ==
    [task EXCEPT !.pc = "send", !.resource = SetRequest(@, ct, RequestTimeOf(task))]

\* if s.isBusy(ct) { continue }; resource.SetRequest(&ct, t): the task goes
\* on to the next subscription, or stands at the send of the request
AfterBusyCheck(task, ct, busy) ==
    IF busy
    THEN NextSub(task)
    ELSE [task EXCEPT !.pc = "send", !.resource = SetRequest(@, ct, RequestTimeOf(task))]

\* one iteration of the loop over subscriptions, up to the send of a request
TaskExamine(i) ==
    /\ Running
    /\ i \in DOMAIN tasks
    /\ tasks[i].pc = "loop"
    /\ LET task == tasks[i]
           got == GetContentType(Head(task.subs))
           r == AddError(task.resource, "ContentType invalid")
       IN  IF got.err
           THEN IF queueClosed
                THEN Crash("send on closed queue")
                ELSE /\ queue' = sendResourceOrSkip(queue, r)
                     /\ tasks' = [tasks EXCEPT ![i] =
                                     NextSub([task EXCEPT !.resource = r])]
                     /\ UNCHANGED << env, config, now, ticks, ctxDone, queueClosed,
                                     outClosed, contentTypeBusy, lastContentCreated,
                                     lastRequestTime, fetchers, out, panicked,
                                     auditCalls, auditFailed, skipped, overlapped,
                                     watcher, tickInstants, busySkips >>
           ELSE /\ contentTypeBusy' = isBusyStore(contentTypeBusy, got.ct)
                /\ tasks' = [tasks EXCEPT ![i] =
                       AfterBusyCheck(task, got.ct, isBusyValue(contentTypeBusy, got.ct))]
                /\ busySkips' = IF isBusyValue(contentTypeBusy, got.ct)
                                THEN busySkips \cup { << got.ct, task.t >> }
                                ELSE busySkips
                /\ UNCHANGED << env, config, now, ticks, ctxDone, queue, queueClosed,
                                outClosed, lastContentCreated, lastRequestTime,
                                fetchers, out, panicked, auditCalls, auditFailed, skipped, overlapped,
                                watcher, tickInstants >>

\* s.sendResourceOrSkip(resource) of a request
TaskSend(i) ==
    /\ Running
    /\ i \in DOMAIN tasks
    /\ tasks[i].pc = "send"
    /\ IF queueClosed
       THEN Crash("send on closed queue")
       ELSE /\ queue' = sendResourceOrSkip(queue, tasks[i].resource)
            /\ tasks' = [tasks EXCEPT ![i] = NextSub(@)]
            /\ UNCHANGED << env, config, now, ticks, ctxDone, queueClosed, outClosed,
                            contentTypeBusy, lastContentCreated, lastRequestTime,
                            fetchers, out, panicked, auditCalls, auditFailed, skipped, overlapped,
                            watcher, tickInstants, busySkips >>

\* the consumer cancels the context
Cancel ==
    /\ Running
    /\ ~ctxDone
    /\ ctxDone' = TRUE
    /\ UNCHANGED << env, config, now, ticks, queue, queueClosed, outClosed,
                    contentTypeBusy, lastContentCreated, lastRequestTime,
                    tasks, fetchers, out, panicked, auditCalls, auditFailed, skipped, overlapped,
                    watcher, tickInstants, busySkips >>

\* the goroutine of Run: case <-ctx.Done(): close(out)
CloseOut ==
    /\ Running
    /\ ctxDone
    /\ ~outClosed
    /\ outClosed' = TRUE
    /\ UNCHANGED << env, config, now, ticks, ctxDone, queue, queueClosed,
                    contentTypeBusy, lastContentCreated, lastRequestTime,
                    tasks, fetchers, out, panicked, auditCalls, auditFailed, skipped, overlapped,
                    watcher, tickInstants, busySkips >>


(* ------------------------------------------------------------------ *)
(* Fetcher                                                             *)
(* ------------------------------------------------------------------ *)

\* two Resources are requests of one content type
SameContentType(r1, r2) ==
    /\ r1.Request.set
    /\ r2.Request.set
    /\ r1.Request.ContentType = r2.Request.ContentType

\* Idle fetchers are interchangeable: the lowest-numbered one is the one
\* that receives or returns.
Receiver(f) == \A g \in Fetchers : fetchers[g].pc = "recv" => f <= g

\* for r := range s.queue: a Resource is received
FetcherReceive(f) ==
    /\ Running
    /\ fetchers[f].pc = "recv"
    /\ Receiver(f)
    /\ queue # << >>
    /\ queue' = Tail(queue)
    /\ fetchers' = [fetchers EXCEPT ![f] = [@ EXCEPT !.pc = "setBusy", !.r = Head(queue)]]
    /\ overlapped' = (overlapped \/ \E g \in Fetchers : SameContentType(fetchers[g].r, Head(queue)))
    /\ UNCHANGED << env, config, now, ticks, ctxDone, queueClosed, outClosed,
                    contentTypeBusy, lastContentCreated, lastRequestTime,
                    tasks, out, panicked, auditCalls, auditFailed, skipped,
                    watcher, tickInstants, busySkips >>

\* for r := range s.queue: the bus is closed and drained, the fetcher returns
FetcherExit(f) ==
    /\ Running
    /\ fetchers[f].pc = "recv"
    /\ Receiver(f)
    /\ queue = << >>
    /\ queueClosed
    /\ fetchers' = [fetchers EXCEPT ![f] = ExitedFetcher]
    /\ UNCHANGED << env, config, now, ticks, ctxDone, queue, queueClosed, outClosed,
                    contentTypeBusy, lastContentCreated, lastRequestTime,
                    tasks, out, panicked, auditCalls, auditFailed, skipped, overlapped,
                    watcher, tickInstants, busySkips >>

\* s.setBusy(r.Request.ContentType): a Resource without a Request has a nil
\* content type, and dereferencing it panics
FetcherSetBusy(f) ==
    /\ Running
    /\ fetchers[f].pc = "setBusy"
    /\ IF fetchers[f].r.Request.set
       THEN /\ contentTypeBusy' = setBusy(contentTypeBusy, fetchers[f].r.Request.ContentType)
            /\ fetchers' = [fetchers EXCEPT ![f].pc = "readState"]
            /\ UNCHANGED << env, config, now, ticks, ctxDone, queue, queueClosed,
                            outClosed, lastContentCreated, lastRequestTime,
                            tasks, out, panicked, auditCalls, auditFailed, skipped, overlapped,
                            watcher, tickInstants, busySkips >>
       ELSE Crash("nil pointer dereference")

\* lastRequestTime := s.getLastRequestTime(...);
\* lastContentCreated := s.getLastContentCreated(...); the window
FetcherReadState(f) ==
    /\ Running
    /\ fetchers[f].pc = "readState"
    /\ LET req == fetchers[f].r.Request
           last == getLastRequestTime(lastRequestTime, req.ContentType)
       IN  fetchers' = [fetchers EXCEPT ![f] =
               [@ EXCEPT !.pc = "list",
                         !.lastRequestTime = last,
                         !.lastContentCreated =
                             getLastContentCreated(lastContentCreated, req.ContentType),
                         !.start = WindowStart(last, req.RequestTime,
                                               config.LookBehindMinutes),
                         !.end = req.RequestTime]]
    /\ UNCHANGED << env, config, now, ticks, ctxDone, queue, queueClosed, outClosed,
                    contentTypeBusy, lastContentCreated, lastRequestTime,
                    tasks, out, panicked, auditCalls, auditFailed, skipped, overlapped,
                    watcher, tickInstants, busySkips >>

\* mutant: setting the response leaves the Request unpopulated
EndOfContent_dropsRequest(fs) ==
    IF fs.content = << >>
    THEN [fs EXCEPT !.pc = "emit",
                    !.r = [SetResponse(@, fs.records) EXCEPT !.Request.set = FALSE],
                    !.records = << >>]
    ELSE fs

\* the fetcher's state once the loop over content has nothing left:
\* r.SetResponse(records), then it stands at out <- r
EndOfContent(fs) ==
    IF fs.content = << >>
    THEN [fs EXCEPT !.pc = "emit", !.r = SetResponse(@, fs.records), !.records = << >>]
    ELSE fs

\* start, end and lastRequestTime are not read after the call of Content.List
AfterList(fs) ==
    [fs EXCEPT !.start = ZeroTime, !.end = ZeroTime, !.lastRequestTime = ZeroTime]

\* mutant: the failed listing falls through to the response
ListFailed_noError(fs) == [fs EXCEPT !.pc = "emit"]

\* if err != nil { r.AddError(err); out <- r; ... }: the fetcher's state at
\* out <- r
ListFailed(fs) == [fs EXCEPT !.pc = "emit", !.r = AddError(@, "content_err")]

\* mutant: lastRequestTime is written before the error of Content.List is
\* looked at
LastRequestTimeAfterList_always(m, req, failed) ==
    setLastRequestTime(m, req.ContentType, req.RequestTime)

\* s.setLastRequestTime(...) stands after the error return of Content.List
LastRequestTimeAfterList(m, req, failed) ==
    IF failed THEN m ELSE setLastRequestTime(m, req.ContentType, req.RequestTime)

\* s.client.Content.List(ctx, ...) fails: r.AddError(err), on to out <- r
FetcherListFails(f) ==
    /\ Running
    /\ fetchers[f].pc = "list"
    /\ lastRequestTime' = LastRequestTimeAfterList(lastRequestTime,
                              fetchers[f].r.Request, TRUE)
    /\ fetchers' = [fetchers EXCEPT ![f] =
           ListFailed([AfterList(@) EXCEPT !.listFailed = TRUE])]
    /\ UNCHANGED << env, config, now, ticks, ctxDone, queue, queueClosed, outClosed,
                    contentTypeBusy, lastContentCreated,
                    tasks, out, panicked, auditCalls, auditFailed, skipped, overlapped,
                    watcher, tickInstants, busySkips >>

\* s.client.Content.List(ctx, ...) succeeds: s.setLastRequestTime(...)
FetcherListSucceeds(f, content) ==
    /\ Running
    /\ fetchers[f].pc = "list"
    /\ content \in env.contentLists
    /\ lastRequestTime' = LastRequestTimeAfterList(lastRequestTime,
                              fetchers[f].r.Request, FALSE)
    /\ fetchers' = [fetchers EXCEPT ![f] =
           EndOfContent([AfterList(@) EXCEPT !.pc = "content", !.content = content,
                                             !.listed = content])]
    /\ UNCHANGED << env, config, now, ticks, ctxDone, queue, queueClosed, outClosed,
                    contentTypeBusy, lastContentCreated,
                    tasks, out, panicked, auditCalls, auditFailed, skipped, overlapped,
                    watcher, tickInstants, busySkips >>

\* what became of a descriptor in the loop over content
Examined(c, outcome, records) ==
    [ContentID |-> c.ContentID, outcome |-> outcome, records |-> records]

\* mutant: an error ends the loop over content
DescriptorFailed_break(fs, e) == [fs EXCEPT !.r = AddError(@, e), !.content = << >>]

\* r.AddError(err); continue
DescriptorFailed(fs, e) == [fs EXCEPT !.r = AddError(@, e)]

\* mutant: a descriptor as old as the watermark is fetched again
IsNewContent_orEqual(created, last) == ~Before(created, last)

\* if !created.After(lastContentCreated) { continue }: the descriptor is
\* gone into only when created is later than the value read before the loop
IsNewContent(created, last) == After(created, last)

\* mutant: the watermark is moved only when Audit.List succeeded
LastContentCreatedAfterAudit_onSuccess(m, ct, t, failed) ==
    IF failed THEN m ELSE setLastContentCreated(m, ct, t)

\* s.setLastContentCreated(...) stands before the call of Audit.List
LastContentCreatedAfterAudit(m, ct, t, failed) == setLastContentCreated(m, ct, t)

\* mutant: the later results are put in front
Gather_prepend(records, audits) == audits \o records

\* records = append(records, audits...)
Gather(records, audits) == records \o audits

\* one iteration of the loop over content; audit is the outcome of Audit.List
\* should it be called
FetcherContent(f, audit) ==
    /\ Running
    /\ fetchers[f].pc = "content"
    /\ LET fs == fetchers[f]
           c == Head(fs.content)
           ct == fs.r.Request.ContentType
           parsed == ParseInLocation(c.ContentCreated)
           fresh == IsNewContent(parsed.t, fs.lastContentCreated)
           outcome == IF parsed.err THEN "parse_err"
                      ELSE IF ~fresh THEN "skipped"
                      ELSE IF audit.err THEN "audit_err" ELSE "ok"
           rest == [fs EXCEPT !.content = Tail(@),
                              !.examined = Append(@,
                                  Examined(c, outcome,
                                           IF outcome = "ok" THEN audit.records
                                                             ELSE << >>))]
       IN  IF parsed.err
           THEN /\ fetchers' = [fetchers EXCEPT ![f] =
                       EndOfContent(DescriptorFailed(rest, "parse_err"))]
                /\ UNCHANGED << lastContentCreated, auditCalls, auditFailed, skipped >>
           ELSE IF ~fresh
           THEN /\ fetchers' = [fetchers EXCEPT ![f] = EndOfContent(rest)]
                /\ skipped' = skipped \cup { << ct, c.ContentID >> }
                /\ UNCHANGED << lastContentCreated, auditCalls, auditFailed >>
           ELSE /\ audit \in AuditOutcomes(c.ContentID)
                /\ lastContentCreated' =
                       LastContentCreatedAfterAudit(lastContentCreated, ct, parsed.t,
                                                    audit.err)
                /\ auditCalls' = auditCalls \cup { << ct, c.ContentID >> }
                /\ auditFailed' = IF audit.err
                                  THEN auditFailed \cup { << ct, c.ContentID >> }
                                  ELSE auditFailed
                /\ fetchers' = [fetchers EXCEPT ![f] =
                       EndOfContent(
                           IF audit.err
                           THEN DescriptorFailed(rest, "audit_err")
                           ELSE [rest EXCEPT !.records = Gather(@, audit.records)])]
                /\ UNCHANGED skipped
    /\ UNCHANGED << env, config, now, ticks, ctxDone, queue, queueClosed, outClosed,
                    contentTypeBusy, lastRequestTime,
                    tasks, out, panicked, overlapped, watcher, tickInstants, busySkips >>

\* out <- r: the consumer receives r, or out is closed and the send panics
FetcherEmit(f) ==
    /\ Running
    /\ fetchers[f].pc = "emit"
    /\ IF outClosed
       THEN Crash("send on closed out")
       ELSE /\ out' = Append(out, fetchers[f].r)
            /\ fetchers' = [fetchers EXCEPT ![f].pc = "unsetBusy"]
            /\ UNCHANGED << env, config, now, ticks, ctxDone, queue, queueClosed,
                            outClosed, contentTypeBusy, lastContentCreated,
                            lastRequestTime, tasks, panicked, auditCalls, auditFailed, skipped, overlapped,
                            watcher, tickInstants, busySkips >>

\* s.unsetBusy(r.Request.ContentType), and back to the receive
FetcherUnsetBusy(f) ==
    /\ Running
    /\ fetchers[f].pc = "unsetBusy"
    /\ contentTypeBusy' = unsetBusy(contentTypeBusy, fetchers[f].r.Request.ContentType)
    /\ fetchers' = [fetchers EXCEPT ![f] = IdleFetcher]
    /\ UNCHANGED << env, config, now, ticks, ctxDone, queue, queueClosed, outClosed,
                    lastContentCreated, lastRequestTime,
                    tasks, out, panicked, auditCalls, auditFailed, skipped, overlapped,
                    watcher, tickInstants, busySkips >>

(* ------------------------------------------------------------------ *)
(* Specification                                                       *)
(* ------------------------------------------------------------------ *)

AllAuditOutcomes == UNION { AuditOutcomes(d.ContentID) : d \in { D1, D2, DBad } }

AllEnvs == Envs \cup { EnvBus, EnvListing }
AllTickSkips == UNION { e.tickSkips : e \in AllEnvs }
AllSubscriptionLists == UNION { e.subscriptionLists : e \in AllEnvs }
AllContentLists == UNION { e.contentLists : e \in AllEnvs }

Next ==
    \/ \E k \in AllTickSkips : Tick(k)
    \/ GeneratorDone
    \/ \E i \in 1 .. MaxTicks : TaskListFails(i)
    \/ \E i \in 1 .. MaxTicks, l \in AllSubscriptionLists : TaskListSucceeds(i, l)
    \/ \E i \in 1 .. MaxTicks : TaskExamine(i)
    \/ \E i \in 1 .. MaxTicks : TaskSend(i)
    \/ Cancel
    \/ CloseOut
    \/ \E f \in Fetchers : FetcherReceive(f)
    \/ \E f \in Fetchers : FetcherExit(f)
    \/ \E f \in Fetchers : FetcherSetBusy(f)
    \/ \E f \in Fetchers : FetcherReadState(f)
    \/ \E f \in Fetchers : FetcherListFails(f)
    \/ \E f \in Fetchers, l \in AllContentLists : FetcherListSucceeds(f, l)
    \/ \E f \in Fetchers, a \in AllAuditOutcomes : FetcherContent(f, a)
    \/ \E f \in Fetchers : FetcherEmit(f)
    \/ \E f \in Fetchers : FetcherUnsetBusy(f)

Spec == Init /\ [][Next]_vars

(* ------------------------------------------------------------------ *)
(* Construction alone: a configuration is handed to the constructor    *)
(* ------------------------------------------------------------------ *)

InitConfig ==
    /\ env = EnvContent
    /\ config \in ConfigInputs
    /\ watcher = Unbuilt
    /\ now = StartTime
    /\ ticks = 0
    /\ ctxDone = FALSE
    /\ queue = << >>
    /\ queueClosed = FALSE
    /\ outClosed = FALSE
    /\ contentTypeBusy = << >>
    /\ lastContentCreated = << >>
    /\ lastRequestTime = << >>
    /\ tasks = << >>
    /\ fetchers = [f \in Fetchers |-> IdleFetcher]
    /\ out = << >>
    /\ panicked = "no"
    /\ auditCalls = {}
    /\ auditFailed = {}
    /\ skipped = {}
    /\ overlapped = FALSE
    /\ tickInstants = << >>
    /\ busySkips = {}

(* ------------------------------------------------------------------ *)
(* The bus under load: the watcher with three subscriptions            *)
(* ------------------------------------------------------------------ *)

InitBus ==
    /\ env \in { EnvBus, EnvListing }
    /\ config \in Configs
    /\ watcher = NewSubscriptionWatcher(config)
    /\ watcher.state = "built"
    /\ now = StartTime
    /\ ticks = 0
    /\ ctxDone = FALSE
    /\ queue = << >>
    /\ queueClosed = FALSE
    /\ outClosed = FALSE
    /\ contentTypeBusy = << >>
    /\ lastContentCreated = << >>
    /\ lastRequestTime = << >>
    /\ tasks = << >>
    /\ fetchers = [f \in Fetchers |-> IdleFetcher]
    /\ out = << >>
    /\ panicked = "no"
    /\ auditCalls = {}
    /\ auditFailed = {}
    /\ skipped = {}
    /\ overlapped = FALSE
    /\ tickInstants = << >>
    /\ busySkips = {}

\* The listing tasks and the receiving end of the bus: the runs of the
\* watcher in which no fetcher gets past its receive, which is when the bus
\* fills.
NextBus ==
    \/ \E k \in AllTickSkips : Tick(k)
    \/ \E i \in 1 .. MaxTicks : TaskListFails(i)
    \/ \E i \in 1 .. MaxTicks, l \in AllSubscriptionLists : TaskListSucceeds(i, l)
    \/ \E i \in 1 .. MaxTicks : TaskExamine(i)
    \/ \E i \in 1 .. MaxTicks : TaskSend(i)
    \/ \E f \in Fetchers : FetcherReceive(f)

SpecBus == InitBus /\ [][NextBus]_vars

(* ------------------------------------------------------------------ *)
(* The window alone: a fetcher about to derive it                      *)
(* ------------------------------------------------------------------ *)

\* the request time of the Resource, the stored lastRequestTime relative to
\* it (ZeroTime: none stored; -Hour: the previous tick of the longest
\* interval), and the look-behind and the interval at both ends of their
\* ranges
WindowRequestTimes == { StartTime + 30, StartTime + 60 }
WindowOffsets ==
    { -2 * intervalOneDay, -intervalOneDay - 30, -intervalOneDay, -Hour, -Minute,
      -30, 0, 30, Minute, intervalOneDay, intervalOneDay + 30 }
WindowConfigs ==
    { [LookBehindMinutes |-> m, TickerIntervalSeconds |-> s] :
          m \in { 1, 60, 1440 }, s \in { 1, 30, 3600 } }

\* one tick has been received and its Resource for Audit.Exchange is held by
\* the first fetcher, which has set busy
InitWindow ==
    /\ env = EnvContent
    /\ config \in WindowConfigs
    /\ watcher = NewSubscriptionWatcher(config)
    /\ watcher.state = "built"
    /\ now \in WindowRequestTimes
    /\ ticks = 1
    /\ tickInstants = << now >>
    /\ tasks = << DoneTask >>
    /\ ctxDone = FALSE
    /\ queue = << >>
    /\ queueClosed = FALSE
    /\ outClosed = FALSE
    /\ contentTypeBusy = (contentTypes["Audit.Exchange"] :> TRUE)
    /\ lastContentCreated = << >>
    /\ \/ lastRequestTime = << >>
       \/ \E d \in WindowOffsets :
              lastRequestTime = (contentTypes["Audit.Exchange"] :> now + d)
    /\ fetchers = [f \in Fetchers |->
           IF f = 1
           THEN [IdleFetcher EXCEPT
                    !.pc = "readState",
                    !.r = SetRequest(EmptyResource, contentTypes["Audit.Exchange"], now)]
           ELSE IdleFetcher]
    /\ out = << >>
    /\ panicked = "no"
    /\ auditCalls = {}
    /\ auditFailed = {}
    /\ skipped = {}
    /\ overlapped = FALSE
    /\ busySkips = {}

NextWindow == \E f \in Fetchers : FetcherReadState(f)

SpecWindow == InitWindow /\ [][NextWindow]_vars

\* everything but the outcome of the construction
running == << env, config, now, ticks, ctxDone, queue, queueClosed, outClosed,
             contentTypeBusy, lastContentCreated, lastRequestTime, tasks,
             fetchers, out, panicked, auditCalls, auditFailed, skipped, overlapped,
             tickInstants, busySkips >>

\* NewSubscriptionWatcher(client, conf) called directly
Construct ==
    /\ watcher = Unbuilt
    /\ watcher' = NewSubscriptionWatcher(config)
    /\ UNCHANGED running

\* SubscriptionService.Watch(ctx, conf): the constructor's error is
\* returned as it is; without one the watcher is run
Watch ==
    /\ watcher = Unbuilt
    /\ watcher' = NewSubscriptionWatcher(config)
    /\ UNCHANGED running

NextConfig == Construct \/ Watch

SpecConfig == InitConfig /\ [][NextConfig]_vars


(* ------------------------------------------------------------------ *)
(* Properties                                                          *)
(* ------------------------------------------------------------------ *)

\* fetcher f holds a Resource of content type c: it has received it from the
\* bus and has not yet cleared busy after emitting it
Holding(f, c) ==
    /\ fetchers[f].pc \notin { "recv", "exited" }
    /\ fetchers[f].r.Request.set
    /\ fetchers[f].r.Request.ContentType = c

\* fetcher f stands at the call of Content.List
AtContentList(f) == fetchers[f].pc = "list"

\* the content blobs whose records an emitted Resource carries
ContentsOf(r) == { r.Response[n].ContentID : n \in DOMAIN r.Response }

\* the emitted Resources of one content type are in request-time order
InRequestOrder ==
    \A i, j \in DOMAIN out :
        (i < j /\ out[i].Request.set /\ out[j].Request.set
               /\ out[i].Request.ContentType = out[j].Request.ContentType)
        => out[i].Request.RequestTime <= out[j].Request.RequestTime

\* C1: for every content type, at most one fetcher holds a Resource of it
MutualExclusion ==
    \A c \in ContentType : Cardinality({ f \in Fetchers : Holding(f, c) }) <= 1

\* C2: with distinct ContentCreated values and request times that do not
\* regress, no content blob has its records in two emitted Resources
NoDuplicateEmission ==
    InRequestOrder =>
        \A i, j \in DOMAIN out : i < j => ContentsOf(out[i]) \cap ContentsOf(out[j]) = {}

\* C2 fails only where two fetchers work on one content type at once: in
\* the runs without such an overlap no content blob is emitted twice
NoDuplicateEmissionWithoutOverlap ==
    ~overlapped =>
        \A i, j \in DOMAIN out : i < j => ContentsOf(out[i]) \cap ContentsOf(out[j]) = {}

\* C3: a descriptor is never skipped by the lastContentCreated watermark
\* unless Audit.List was invoked for it before (stated for the runs in which
\* no two fetchers worked on one content type at once, so that a violation
\* is the watermark's own)
NoSkippedContent == ~overlapped => skipped \subseteq auditCalls

\* C4: with lastRequestTime L set and 1 minute <= R - L <= 1 day, Content.List
\* is called with start = L (stated for the runs in which no two fetchers
\* worked on one content type at once)
WindowStartsAtWatermark ==
    ~overlapped =>
    \A f \in Fetchers :
        LET L == fetchers[f].lastRequestTime
            R == fetchers[f].r.Request.RequestTime
        IN  (AtContentList(f) /\ ~IsZero(L) /\ Minute <= R - L /\ R - L <= intervalOneDay)
            => fetchers[f].start = L

\* C5: with lastRequestTime L unset, or less than a minute away from R,
\* Content.List is called with the window [R - LookBehindMinutes, R]
LookBehindWindow ==
    \A f \in Fetchers :
        LET L == fetchers[f].lastRequestTime
            R == fetchers[f].r.Request.RequestTime
        IN  (AtContentList(f) /\ (IsZero(L) \/ (L - R < Minute /\ R - L < Minute)))
            => /\ fetchers[f].start = R - config.LookBehindMinutes * Minute
               /\ fetchers[f].end = R

\* a fetch whose stored lastRequestTime is set and within a minute of R
LookBehindWitness ==
    \E f \in Fetchers :
        LET L == fetchers[f].lastRequestTime
            R == fetchers[f].r.Request.RequestTime
        IN  AtContentList(f) /\ ~IsZero(L) /\ L # R /\ L - R < Minute /\ R - L < Minute

\* C6: with lastRequestTime L more than a day ahead of R, Content.List is
\* called with start = R - 1 day
OneDayClamp ==
    \A f \in Fetchers :
        LET L == fetchers[f].lastRequestTime
            R == fetchers[f].r.Request.RequestTime
        IN  (AtContentList(f) /\ L - R > intervalOneDay)
            => fetchers[f].start = R - intervalOneDay

\* a fetch whose stored lastRequestTime is more than a day ahead of R
OneDayClampWitness ==
    \E f \in Fetchers :
        AtContentList(f)
        /\ fetchers[f].lastRequestTime - fetchers[f].r.Request.RequestTime > intervalOneDay

Max(a, b) == IF a >= b THEN a ELSE b

\* fetcher f's call of Content.List returns successfully in this step
ListSucceedsStep(f) ==
    /\ fetchers[f].pc = "list"
    /\ fetchers'[f].pc \in { "content", "emit" }
    /\ fetchers'[f].r.Errors = fetchers[f].r.Errors

\* C7: the stored watermarks of a content type are never unset and never
\* decrease, and a write of lastRequestTime leaves the greater of the stored
\* and the written value
WatermarksMonotonic ==
    [][ panicked' = "no" =>
        /\ \A c \in DOMAIN lastRequestTime :
              c \in DOMAIN lastRequestTime' /\ lastRequestTime'[c] >= lastRequestTime[c]
        /\ \A c \in DOMAIN lastContentCreated :
              c \in DOMAIN lastContentCreated'
              /\ lastContentCreated'[c] >= lastContentCreated[c]
        /\ \A f \in Fetchers :
              ListSucceedsStep(f) =>
                  LET req == fetchers[f].r.Request IN
                  getLastRequestTime(lastRequestTime', req.ContentType)
                    = Max(getLastRequestTime(lastRequestTime, req.ContentType),
                          req.RequestTime) ]_vars

\* a successful listing whose request time is older than the stored
\* lastRequestTime: its write was discarded
WatermarksMonotonicWitness ==
    \E f \in Fetchers :
        /\ fetchers[f].pc \in { "content", "emit" }
        /\ fetchers[f].r.Errors = << >>
        /\ fetchers[f].r.Request.ContentType \in DOMAIN lastRequestTime
        /\ fetchers[f].r.Request.RequestTime
             < lastRequestTime[fetchers[f].r.Request.ContentType]

\* C8: the Resources emitted for a content type are in non-decreasing
\* request-time order (stated for the runs in which no two fetchers worked
\* on one content type at once: the listing tasks alone reorder requests)
EmittedInRequestOrder == ~overlapped => InRequestOrder

\* C9: every emitted Resource has a populated Request or a non-empty error list
EmittedHasRequestOrError ==
    \A i \in DOMAIN out : out[i].Request.set \/ out[i].Errors # << >>

\* an emitted Resource without errors, and one with an error
EmittedHasRequestOrErrorWitness ==
    /\ \E i \in DOMAIN out : out[i].Errors = << >>
    /\ \E i \in DOMAIN out : out[i].Errors # << >>

\* C10: every emitted Resource has a non-empty response or a non-empty error
\* list, and the content type of its Request is set
EmittedNonEmpty ==
    \A i \in DOMAIN out :
        /\ out[i].Response # << >> \/ out[i].Errors # << >>
        /\ out[i].Request.set

\* the configurations the documented ranges admit
InRange(conf) ==
    /\ conf.LookBehindMinutes \in 1 .. 1440
    /\ conf.TickerIntervalSeconds \in 1 .. 3600

\* C11: the construction fails exactly when LookBehindMinutes is outside
\* 1..1440 or TickerIntervalSeconds is outside 1..3600, and a configuration
\* has one outcome
ValidationExact ==
    watcher # Unbuilt =>
        /\ watcher.state = "failed" <=> ~InRange(config)
        /\ watcher = NewSubscriptionWatcher(config)

\* the part of C11 that holds: within the range of values whose product
\* with the unit stays inside int64 the construction fails exactly outside
\* the documented ranges
ValidationExactWithoutWrap ==
    (watcher # Unbuilt /\ config.LookBehindMinutes < 307445734)
        => (watcher.state = "failed" <=> ~InRange(config))

\* the Resources in existence: queued, held by a fetcher, kept by a listing
\* task, or received by the consumer
Resources ==
    { queue[k] : k \in DOMAIN queue }
    \cup { fetchers[f].r : f \in { g \in Fetchers : fetchers[g].pc \notin { "recv", "exited" } } }
    \cup { tasks[i].resource : i \in DOMAIN tasks }
    \cup { out[k] : k \in DOMAIN out }

\* r is a request of content type c made at instant t
IsRequest(r, c, t) ==
    r.Request.set /\ r.Request.ContentType = c /\ r.Request.RequestTime = t

\* C12: when a listing task finds the content type c of a subscription busy,
\* no Resource for c and that tick is offered to the bus, then or later, and
\* the task keeps no request for c
BusySkip ==
    \A s \in busySkips : \A r \in Resources : ~IsRequest(r, s[1], s[2])

\* a listing task has found a content type busy and has gone on
BusySkipWitness ==
    \E s \in busySkips : \E i \in DOMAIN tasks :
        tasks[i] = DoneTask /\ tickInstants[i] = s[2]

\* C13: the Resource a listing task offers for a recognized, not busy
\* subscription has the subscription's content type and the instant of the
\* tick that started the task as its Request, whatever the time at which
\* the listing returned
RequestConstruction ==
    /\ \A i \in DOMAIN tasks :
          tasks[i].pc = "send" =>
              IsRequest(tasks[i].resource,
                        GetContentType(Head(tasks[i].subs)).ct, tickInstants[i])
    /\ \A k \in DOMAIN queue :
          queue[k].Request.set =>
              \E i \in DOMAIN tickInstants :
                  queue[k].Request.RequestTime = tickInstants[i]

\* a request of the first tick is offered after the second tick came
RequestConstructionWitness ==
    \E i \in DOMAIN tasks : tasks[i].pc = "send" /\ tickInstants[i] < now

\* the number of Resources the consumer received with the Request req
EmittedFor(req) == Cardinality({ k \in DOMAIN out : out[k].Request = req })

\* C14: a fetch whose Content.List failed emits exactly one Resource, with
\* its Request, an empty response and the Content.List error as the one
\* error the fetch added, and examines no descriptor (calls no Audit.List)
ContentListFailure ==
    \A f \in Fetchers :
        fetchers[f].listFailed =>
            LET r == fetchers[f].r IN
            /\ r.Request.set
            /\ r.Response = << >>
            /\ r.Errors # << >>
            /\ r.Errors[Len(r.Errors)] = "content_err"
            /\ \A k \in 1 .. Len(r.Errors) - 1 : r.Errors[k] = "ContentType invalid"
            /\ fetchers[f].examined = << >>
            /\ fetchers[f].records = << >>
            /\ fetchers[f].pc \in { "emit", "unsetBusy" }
            /\ fetchers[f].pc = "emit" => EmittedFor(r.Request) = 0
            /\ fetchers[f].pc = "unsetBusy" =>
                  /\ EmittedFor(r.Request) = 1
                  /\ \E k \in DOMAIN out : out[k] = r

\* a fetch whose Content.List failed has emitted its Resource
ContentListFailureWitness ==
    \E f \in Fetchers : fetchers[f].listFailed /\ fetchers[f].pc = "unsetBusy"

\* C15: no step of a fetch whose Content.List failed, from the failure on,
\* changes lastRequestTime or lastContentCreated
ListFailureKeepsState ==
    [][ \A f \in Fetchers :
          ( /\ panicked' = "no"
            /\ \/ fetchers[f].pc = "list" /\ fetchers'[f].listFailed
               \/ fetchers[f].listFailed /\ fetchers'[f] # fetchers[f] )
          => /\ lastRequestTime' = lastRequestTime
             /\ lastContentCreated' = lastContentCreated ]_vars

\* a fetch has failed whose request time is later than the stored
\* lastRequestTime of its content type: a write would have shown
ListFailureKeepsStateWitness ==
    \E f \in Fetchers :
        LET req == fetchers[f].r.Request IN
        /\ fetchers[f].listFailed
        /\ req.ContentType \in DOMAIN lastRequestTime
        /\ lastRequestTime[req.ContentType] < req.RequestTime

\* the records of the descriptors examined, in the order of examination
RECURSIVE RecordsOf(_)
RecordsOf(examined) ==
    IF examined = << >> THEN << >>
    ELSE Head(examined).records \o RecordsOf(Tail(examined))

IDs(seq) == [k \in DOMAIN seq |-> seq[k].ContentID]
Outcomes(examined) == [k \in DOMAIN examined |-> examined[k].outcome]

\* an error of the loop over content, as an outcome and as the error appended
IsDescriptorError(e) == e \in { "parse_err", "audit_err" }

\* C16: in a fetch whose Content.List succeeded, a descriptor whose
\* ContentCreated does not parse or whose Audit.List fails adds exactly one
\* error and nothing else; the descriptors examined and those still to come
\* make up the list returned, so that at the end every descriptor has been
\* examined; and the records gathered (at the end: the response) are those
\* of the descriptors whose Audit.List succeeded
DescriptorErrorIsolation ==
    \A f \in Fetchers :
        LET fs == fetchers[f] IN
        (fs.pc \in { "content", "emit", "unsetBusy" } /\ ~fs.listFailed) =>
            /\ IDs(fs.examined) \o IDs(fs.content) = IDs(fs.listed)
            /\ fs.pc # "content" => Len(fs.examined) = Len(fs.listed)
            /\ SelectSeq(fs.r.Errors, IsDescriptorError)
                 = SelectSeq(Outcomes(fs.examined), IsDescriptorError)
            /\ (IF fs.pc = "content" THEN fs.records ELSE fs.r.Response)
                 = RecordsOf(fs.examined)

\* Audit.List failed for the first descriptor and succeeded for the second,
\* whose records are the response
DescriptorErrorIsolationWitness ==
    \E f \in Fetchers :
        LET fs == fetchers[f] IN
        /\ fs.pc = "emit"
        /\ Outcomes(fs.examined) = << "audit_err", "ok" >>
        /\ fs.r.Errors = << "audit_err" >>
        /\ fs.r.Response # << >>

\* the Resource a listing task offers when Subscriptions.List failed
ListingFailure == AddError(EmptyResource, "subscriptions_err")

\* C17: a fetcher that received the Resource of a failed Subscriptions.List
\* does not fail: its next step leaves the process running
SubscriptionsListFailure ==
    [][ \A f \in Fetchers :
          ( /\ fetchers[f].pc = "setBusy"
            /\ fetchers[f].r = ListingFailure
            /\ fetchers'[f] # fetchers[f] )
          => panicked' = "no" ]_vars

\* C18: the output is closed only when every fetcher has exited
ShutdownOrdering ==
    outClosed => \A f \in Fetchers : fetchers[f].pc = "exited"

\* the end of an orderly shutdown: the bus closed, every fetcher returned
\* from its loop, the output closed
ShutdownDone ==
    /\ Running
    /\ queueClosed
    /\ \A f \in Fetchers : fetchers[f].pc = "exited"
    /\ outClosed

\* C19: after the cancellation the watcher does not come to a halt before
\* the bus is closed, every fetcher has finished and exited and the output
\* is closed: short of that some goroutine can take a step
ShutdownCompletes == ctxDone => (ShutdownDone \/ ENABLED Next)

\* C20: the bus never holds more than N = |ContentType| Resources; a listing
\* task standing at its send can always take that step; and the step leaves
\* a bus that holds N Resources as it is, and appends the Resource otherwise
NonBlockingSend ==
    /\ [](Len(queue) <= contentTypeCount)
    /\ [](\A i \in DOMAIN tasks :
            (Running /\ tasks[i].pc = "send") => ENABLED TaskSend(i))
    /\ [][ \A i \in DOMAIN tasks :
              (panicked' = "no" /\ tasks[i].pc = "send" /\ tasks'[i] # tasks[i])
              => queue' = IF Len(queue) = contentTypeCount
                          THEN queue
                          ELSE Append(queue, tasks[i].resource) ]_vars

\* both listing tasks are through, no fetcher has received anything, and the
\* bus holds N Resources: the sixth, the second tick's request for
\* Audit.General, was discarded
NonBlockingSendWitness ==
    /\ env = EnvBus
    /\ Len(tasks) = 2
    /\ \A i \in DOMAIN tasks : tasks[i] = DoneTask
    /\ \A f \in Fetchers : fetchers[f].pc = "recv"
    /\ Len(queue) = contentTypeCount
    /\ \A k \in DOMAIN queue :
          ~IsRequest(queue[k], contentTypes["Audit.General"], tickInstants[2])

\* C21: a descriptor whose Audit.List failed is gone into again by a later
\* fetch of its content type whose listing returns it: no fetch skips it
\* (stated for the runs in which no two fetchers worked on one content type
\* at once)
FailedAuditRetried ==
    ~overlapped =>
        \A f \in Fetchers : \A k \in DOMAIN fetchers[f].examined :
            fetchers[f].examined[k].outcome = "skipped"
            => << fetchers[f].r.Request.ContentType,
                  fetchers[f].examined[k].ContentID >> \notin auditFailed

\* the descriptor of the listing that stands behind the k-th examination
CreatedOf(fs, k) == ParseInLocation(fs.listed[k].ContentCreated)

\* Audit.List was called for an examined descriptor
AuditCalled(e) == e.outcome \in { "ok", "audit_err" }

\* C22: within a fetch Audit.List is called for a descriptor exactly when
\* its ContentCreated parses and is later than the lastContentCreated the
\* fetch read at its start; a descriptor that is not later is skipped and
\* adds no call, no records and no error
WatermarkSkipRule ==
    \A f \in Fetchers :
        LET fs == fetchers[f] IN
        \A k \in DOMAIN fs.examined :
            LET e == fs.examined[k]
                created == CreatedOf(fs, k)
            IN  /\ AuditCalled(e)
                     <=> (~created.err /\ created.t > fs.lastContentCreated)
                /\ (~created.err /\ created.t <= fs.lastContentCreated)
                     => (e.outcome = "skipped" /\ e.records = << >>)
                /\ AuditCalled(e)
                     => << fs.r.Request.ContentType, e.ContentID >> \in auditCalls

\* Scenario B: of two descriptors the first is as old as the watermark and
\* skipped, the second is later and fetched
WatermarkSkipRuleWitness ==
    \E f \in Fetchers :
        /\ Outcomes(fetchers[f].examined) = << "skipped", "ok" >>
        /\ fetchers[f].r.Errors = << >>
        /\ CreatedOf(fetchers[f], 1).t = fetchers[f].lastContentCreated

\* the ContentCreated instants of the descriptors for which the fetch has
\* called Audit.List
CalledInstants(fs) ==
    { CreatedOf(fs, k).t : k \in { j \in DOMAIN fs.examined : AuditCalled(fs.examined[j]) } }

MaxOf(S) == CHOOSE x \in S : \A y \in S : x >= y

\* C23: the stored lastContentCreated of c is never behind the
\* ContentCreated of a descriptor for which a fetch of c has called
\* Audit.List, whether the call succeeded or not; and when a fetch is
\* through it is the greatest of the value the fetch read at its start and
\* those instants (stated for the runs in which no other fetcher worked on
\* c at the same time)
LastContentCreatedAfterFetch ==
    \A f \in Fetchers :
        LET fs == fetchers[f]
            stored == getLastContentCreated(lastContentCreated,
                                            fs.r.Request.ContentType)
        IN  (fs.pc \in { "content", "emit", "unsetBusy" } /\ ~fs.listFailed) =>
                /\ \A t \in CalledInstants(fs) : stored >= t
                /\ (~overlapped /\ fs.pc # "content")
                     => stored = MaxOf(CalledInstants(fs) \cup { fs.lastContentCreated })

\* a fetch is through whose last Audit.List call failed, and the watermark
\* has moved to that descriptor all the same
LastContentCreatedAfterFetchWitness ==
    \E f \in Fetchers :
        LET fs == fetchers[f] IN
        /\ fs.pc = "emit"
        /\ ~overlapped
        /\ Outcomes(fs.examined) = << "ok", "audit_err" >>
        /\ lastContentCreated[fs.r.Request.ContentType] = CreatedOf(fs, 2).t
        /\ fs.lastContentCreated < CreatedOf(fs, 1).t

ReturnedFor(e) == AuditLists(e.ContentID)

\* C25: the response of a Resource about to be emitted is the concatenation,
\* in the order of the listing, of what Audit.List returned for the
\* descriptors it succeeded for, each result whole and in its own order;
\* the other descriptors add nothing
RecordOrder ==
    \A f \in Fetchers :
        LET fs == fetchers[f] IN
        (fs.pc \in { "emit", "unsetBusy" } /\ ~fs.listFailed) =>
            /\ IDs(fs.examined) = IDs(fs.listed)
            /\ \A k \in DOMAIN fs.examined :
                  IF fs.examined[k].outcome = "ok"
                  THEN fs.examined[k].records \in ReturnedFor(fs.examined[k])
                  ELSE fs.examined[k].records = << >>
            /\ fs.r.Response = RecordsOf(fs.examined)

\* Audit.List succeeded for both descriptors of a listing: the response is
\* the two records of the first followed by the record of the second
RecordOrderWitness ==
    \E f \in Fetchers :
        LET fs == fetchers[f] IN
        /\ fs.pc = "emit"
        /\ Outcomes(fs.examined) = << "ok", "ok" >>
        /\ Len(fs.r.Response) = 3
        /\ fs.r.Response[1].ContentID = fs.listed[1].ContentID
        /\ fs.r.Response[3].ContentID = fs.listed[2].ContentID

\* C26: busy[c] is true exactly when some fetcher holds a Resource of c,
\* from its receive from the bus to the clearing of busy after the emission
BusyMeansInFlight ==
    \A c \in ContentType :
        isBusyValue(contentTypeBusy, c) <=> \E f \in Fetchers : Holding(f, c)

\* C27: while the context is not cancelled no step ends the process under a
\* fetch that has started, so that every fetch can come to its end, where
\* busy is cleared
FetchComesToItsEnd ==
    [][ (~ctxDone /\ \E f \in Fetchers : fetchers[f].pc \in
                         { "readState", "list", "content", "emit", "unsetBusy" })
        => panicked' = "no" ]_vars

\* C27 fails only through the panics: a fetch that does reach its last
\* step, after a success or after a Content.List failure, leaves busy false
FetchEndsNotBusy ==
    [][ \A f \in Fetchers :
          (fetchers[f].pc = "unsetBusy" /\ fetchers'[f].pc = "recv")
          => ~isBusyValue(contentTypeBusy', fetchers[f].r.Request.ContentType) ]_vars

\* C29: the bus holds at most one Resource per content type
NoAccumulation ==
    \A c \in ContentType :
        Cardinality({ k \in DOMAIN queue :
                        queue[k].Request.set /\ queue[k].Request.ContentType = c }) <= 1

\* C28: for a subscription whose content type is not recognized the listing
\* task offers a Resource with no Request and that one error, wherever the
\* subscription stands in the listing
UnrecognizedSubscription ==
    [][ \A i \in DOMAIN tasks :
          ( /\ panicked' = "no"
            /\ tasks[i].pc = "loop"
            /\ GetContentType(Head(tasks[i].subs)).err
            /\ tasks'[i] # tasks[i]
            /\ Len(queue) < contentTypeCount )
          => queue' = Append(queue, AddError(EmptyResource, "ContentType invalid")) ]_vars

\* C30: every call of Content.List has the Resource's request time as its
\* end and a window of at most 24 hours
WindowBound ==
    \A f \in Fetchers :
        AtContentList(f) =>
            /\ fetchers[f].end = fetchers[f].r.Request.RequestTime
            /\ fetchers[f].end - fetchers[f].start <= intervalOneDay

\* a call whose window is the full 24 hours, the stored lastRequestTime
\* being two days behind the request time
WindowBoundWitness ==
    \E f \in Fetchers :
        /\ AtContentList(f)
        /\ fetchers[f].end - fetchers[f].start = intervalOneDay
        /\ fetchers[f].end - fetchers[f].lastRequestTime = 2 * intervalOneDay

\* C31: no fetcher attempts to send a Resource on the output after the
\* output has been closed: the process never dies of that send
NoSendOnClosedOutput == panicked # "send on closed out"

\* C32: no listing task offers a Resource to the bus after the generator has
\* closed it: the process never dies of that send
NoSendOnClosedBus == panicked # "send on closed queue"

\* C33: every Content.List call has start <= end, also when the stored
\* lastRequestTime is between 1 minute and 1 day ahead of the RequestTime
WellFormedWindow ==
    \A f \in Fetchers :
        AtContentList(f) => fetchers[f].start <= fetchers[f].end

\* C34: a fetch whose content type was last listed successfully at R1, with
\* R1 < R2 and R2 - R1 <= 1 day for its own request time R2, calls
\* Content.List with a start no later than R1: nothing between R1 and R2 is
\* left unqueried
NoGapBetweenWindows ==
    \A f \in Fetchers :
        LET R1 == fetchers[f].lastRequestTime
            R2 == fetchers[f].r.Request.RequestTime
        IN  (AtContentList(f) /\ ~IsZero(R1) /\ R1 < R2 /\ R2 - R1 <= intervalOneDay)
            => fetchers[f].start <= R1

\* C35: the request a listing task is about to offer for a recognized
\* subscription has no errors, and no Resource emitted for a content type
\* carries the resolution error of another subscription
ErrorsStayWithTheirResource ==
    /\ \A i \in DOMAIN tasks :
          tasks[i].pc = "send" => tasks[i].resource.Errors = << >>
    /\ \A k \in DOMAIN out :
          out[k].Request.set =>
              \A n \in DOMAIN out[k].Errors : out[k].Errors[n] # "ContentType invalid"

\* C36: with the durations computed as wrapping 64-bit products, the
\* construction still fails for every LookBehindMinutes above 1440 and every
\* TickerIntervalSeconds above 3600
RejectsAboveRange ==
    ( /\ watcher # Unbuilt
      /\ \/ config.LookBehindMinutes > 1440
         \/ config.TickerIntervalSeconds > 3600 )
    => watcher.state = "failed"

====
